---- MODULE Spec2Model ----
(***************************************************************************)
(* A model of squad/core/models.py: the build completion evaluator         *)
(* (Build.finished), the test summary (TestSummary, TestSummaryBase), the  *)
(* metadata merge (Build.metadata), the stored comparison fields of a      *)
(* ProjectStatus, ProjectStatus.create_or_update run by one or several     *)
(* workers against one database, Test.status, Test.history and             *)
(* NotificationDelivery.exists.                                            *)
(*                                                                         *)
(* Python's None is the empty sequence, a value v that may be None is      *)
(* <<v>>: a nullable integer is <<>> or <<n>>, a NullBooleanField is <<>>, *)
(* <<TRUE>> or <<FALSE>>.                                                  *)
(***************************************************************************)
EXTENDS Integers, Sequences, FiniteSets, TLC

VARIABLES
    environments,     \* Environment table: id -> [project, expected_test_runs]
    builds,           \* Build table: id -> [project, datetime, patch_baseline]
    test_runs,        \* TestRun table, index = id: [build, environment, completed]
    test_jobs,        \* squad.ci TestJob table: [build, fetched]
    tests,            \* Test table: set of [test_run, suite, name, result, has_known_issues]
    finishedResult,   \* what the last evaluation of Build.finished gave
    summaryResult,    \* what the last construction of a TestSummary gave
    run_metadata,     \* TestRun.metadata of the build's test runs, by run
    metadataResult,   \* what the last reads of Build.metadata gave
    regressions_field,\* ProjectStatus.regressions of one stored status
    yamlResult,       \* what the last call of get_regressions gave
    statuses,         \* ProjectStatus table, index = id
    metrics,          \* Metric table: [test_run, result]
    previousResult,   \* what the last previous-build query gave
    clock,            \* timezone.now()
    pc,               \* where each worker is in create_or_update
    local,            \* the local variables of each worker's call
    known_issues,     \* KnownIssue table, index = id
    statusResult,     \* what the last read of Test.status gave
    historyResult,    \* what the last read of Test.history gave
    deliveries,       \* NotificationDelivery table, index = id
    answers           \* what the calls of NotificationDelivery.exists returned, in order

vars == <<environments, builds, test_runs, test_jobs, tests, finishedResult,
          summaryResult, run_metadata, metadataResult, regressions_field,
          yamlResult, statuses, metrics, previousResult, clock, pc, local,
          known_issues, statusResult, historyResult, deliveries, answers>>

\* the variables of the known issues, of the test history and of the
\* notification deliveries
sideVars == <<known_issues, statusResult, historyResult, deliveries, answers>>

\* the variables of the status snapshotter
workVars == <<statuses, metrics, previousResult, clock, pc, local>>

\* the variables of the stored comparison field
yamlVars == <<regressions_field, yamlResult>>

\* the variables of the metadata merge
metaVars == <<run_metadata, metadataResult>>

----------------------------------------------------------------------------
(* Bounds of the model *)

MaxRuns == 2
MaxJobs == 1
MaxTests == 2
MaxMetaRuns == 2
MaxYamlLines == 3
MaxBuilds == 3
MaxClock == 4
MaxIssues == 2
MaxHistoryTests == 3
MaxCalls == 3

----------------------------------------------------------------------------
(* Values *)

None == <<>>
Some(v) == <<v>>
IsNone(o) == o = <<>>
Val(o) == o[1]

\* Python truthiness of a nullable integer: None and 0 are false
TruthyInt(o) == o # None /\ Val(o) # 0

\* Python truthiness of a nullable boolean: None and False are false
TruthyBool(o) == o # None /\ Val(o)

NoCall == [called |-> FALSE]

\* no known issue, no delivery, nothing read
NoSide ==
    /\ known_issues = <<>>
    /\ statusResult = NoCall
    /\ historyResult = NoCall
    /\ deliveries = <<>>
    /\ answers = <<>>

\* the workers that run ProjectStatus.create_or_update
Workers == {"w1", "w2"}

\* no status is stored and no worker is in a call
NoWork ==
    /\ statuses = <<>>
    /\ previousResult = NoCall
    /\ clock = 0
    /\ pc = [w \in Workers |-> "idle"]
    /\ local = [w \in Workers |-> NoCall]

TheProject == 1
OtherProject == 2
TheBuild == 2
EarlierBuild == 1

\* the environments the model draws from: 1 and 2 may belong to the build's
\* project, 3 belongs to another project
ProjectEnvIds == {1, 2}
ForeignEnvId == 3
ExpectedValues == {None, Some(0 - 1), Some(0), Some(2)}

\* the two builds of the project that all but the previous-build
\* specification work on
TwoBuilds ==
    (EarlierBuild :> [project |-> TheProject, datetime |-> 1, patch_baseline |-> None])
    @@ (TheBuild :> [project |-> TheProject, datetime |-> 2, patch_baseline |-> None])

----------------------------------------------------------------------------
(* Build.finished *)

\* self.project.environments.all(), in id order
ProjectEnvironments(b) ==
    {e \in DOMAIN environments : environments[e].project = builds[b].project}

\* self.test_runs.filter(completed=True).all()
CompletedRuns(b) ==
    SelectSeq(test_runs, LAMBDA t : t.build = b /\ t.completed)

\* for t in ...: testruns[t.environment_id]['received'] += 1
\* a test run whose environment is not a key of the table raises KeyError
RECURSIVE CountReceived(_, _, _)
CountReceived(testruns, runs, i) ==
    IF i > Len(runs) THEN [raised |-> FALSE, testruns |-> testruns]
    ELSE IF runs[i].environment \notin DOMAIN testruns
         THEN [raised |-> TRUE, testruns |-> testruns]
         ELSE CountReceived(
                [testruns EXCEPT ![runs[i].environment].received = @ + 1],
                runs, i + 1)

CIReason == [kind |-> "unfinished_ci_jobs", env |-> 0, expected |-> 0, received |-> 0]
NoRunsReason(e) == [kind |-> "no_test_runs", env |-> e, expected |-> 0, received |-> 0]
ExpectedReason(e, x, r) == [kind |-> "expected", env |-> e, expected |-> x, received |-> r]

\* EnvReasons without its "received == 0" test
EnvReasonsNoZeroTest(env, count) ==
    IF count.expected = Some(0) THEN <<>>
    ELSE IF TruthyInt(count.expected) /\ count.received < Val(count.expected)
         THEN <<ExpectedReason(env, Val(count.expected), count.received)>>
         ELSE <<>>

\* the body of the loop over testruns.items() for one environment
EnvReasons(env, count) ==
    IF count.expected = Some(0) THEN <<>>
    ELSE (IF count.received = 0 THEN <<NoRunsReason(env)>> ELSE <<>>)
         \o (IF TruthyInt(count.expected) /\ count.received < Val(count.expected)
             THEN <<ExpectedReason(env, Val(count.expected), count.received)>>
             ELSE <<>>)

RECURSIVE AllEnvReasons(_, _)
AllEnvReasons(testruns, envs) ==
    IF envs = {} THEN <<>>
    ELSE LET e == CHOOSE x \in envs : \A y \in envs : x <= y
         IN EnvReasons(e, testruns[e]) \o AllEnvReasons(testruns, envs \ {e})

\* FinishedWith returning as soon as it has seen an unfetched CI job
FinishedWithShortCircuit(jobs, envs, completed) ==
    LET testruns0 ==
            [e \in envs |->
                [expected |-> environments[e].expected_test_runs, received |-> 0]]
        counted == CountReceived(testruns0, completed, 1)
    IN IF Len(jobs) > 0 /\ Len(SelectSeq(jobs, LAMBDA j : ~j.fetched)) > 0
       THEN [called |-> TRUE, raised |-> FALSE, isFinished |-> FALSE,
             reasons |-> <<CIReason>>]
       ELSE IF counted.raised
       THEN [called |-> TRUE, raised |-> TRUE, isFinished |-> FALSE, reasons |-> <<>>]
       ELSE LET reasons == AllEnvReasons(counted.testruns, envs)
            IN [called |-> TRUE, raised |-> FALSE,
                isFinished |-> (Len(reasons) = 0), reasons |-> reasons]

FinishedWith(jobs, envs, completed) ==
    LET reasons0 ==
            IF Len(jobs) > 0 /\ Len(SelectSeq(jobs, LAMBDA j : ~j.fetched)) > 0
            THEN <<CIReason>> ELSE <<>>
        testruns0 ==
            [e \in envs |->
                [expected |-> environments[e].expected_test_runs, received |-> 0]]
        counted == CountReceived(testruns0, completed, 1)
    IN IF counted.raised
       THEN [called |-> TRUE, raised |-> TRUE, isFinished |-> FALSE, reasons |-> <<>>]
       ELSE LET reasons == reasons0 \o AllEnvReasons(counted.testruns, envs)
            IN [called |-> TRUE, raised |-> FALSE,
                isFinished |-> (Len(reasons) = 0), reasons |-> reasons]

Finished(b) ==
    FinishedWith(SelectSeq(test_jobs, LAMBDA j : j.build = b),
                 ProjectEnvironments(b), CompletedRuns(b))

----------------------------------------------------------------------------
(* Changes of a build's data, by the ingestion of results and by squad.ci *)

InsertTestRun(b, e, c) ==
    test_runs' = Append(test_runs, [build |-> b, environment |-> e, completed |-> c])

AddTestRun(b, e, c) ==
    /\ Len(test_runs) < MaxRuns
    /\ InsertTestRun(b, e, c)

CompleteTestRun(i) ==
    /\ ~test_runs[i].completed
    /\ test_runs' = [test_runs EXCEPT ![i].completed = TRUE]

AddTestJob(b, f) ==
    /\ Len(test_jobs) < MaxJobs
    /\ test_jobs' = Append(test_jobs, [build |-> b, fetched |-> f])

FetchTestJob(i) ==
    /\ ~test_jobs[i].fetched
    /\ test_jobs' = [test_jobs EXCEPT ![i].fetched = TRUE]

----------------------------------------------------------------------------
(* The completion evaluator on its own: any environments, runs and jobs *)

EnvironmentTables ==
    {f @@ (ForeignEnvId :> [project |-> OtherProject, expected_test_runs |-> None]) :
        f \in UNION {[S -> [project : {TheProject}, expected_test_runs : ExpectedValues]] :
                        S \in SUBSET ProjectEnvIds}}

InitFinished ==
    /\ environments \in EnvironmentTables
    /\ builds = TwoBuilds
    /\ test_runs = <<>>
    /\ test_jobs = <<>>
    /\ tests = {}
    /\ finishedResult = NoCall
    /\ summaryResult = NoCall
    /\ run_metadata = <<>>
    /\ metadataResult = NoCall
    /\ regressions_field = None
    /\ yamlResult = NoCall
    /\ metrics = <<>>
    /\ NoWork
    /\ NoSide

FinAddTestRun ==
    /\ \E e \in DOMAIN environments, c \in BOOLEAN : AddTestRun(TheBuild, e, c)
    /\ finishedResult' = NoCall
    /\ UNCHANGED <<environments, builds, test_jobs, tests, summaryResult, metaVars, yamlVars, workVars, sideVars>>

FinCompleteTestRun ==
    /\ \E i \in 1..Len(test_runs) : CompleteTestRun(i)
    /\ finishedResult' = NoCall
    /\ UNCHANGED <<environments, builds, test_jobs, tests, summaryResult, metaVars, yamlVars, workVars, sideVars>>

FinAddTestJob ==
    /\ \E f \in BOOLEAN : AddTestJob(TheBuild, f)
    /\ finishedResult' = NoCall
    /\ UNCHANGED <<environments, builds, test_runs, tests, summaryResult, metaVars, yamlVars, workVars, sideVars>>

FinFetchTestJob ==
    /\ \E i \in 1..Len(test_jobs) : FetchTestJob(i)
    /\ finishedResult' = NoCall
    /\ UNCHANGED <<environments, builds, test_runs, tests, summaryResult, metaVars, yamlVars, workVars, sideVars>>

EvalFinished ==
    /\ finishedResult = NoCall
    /\ finishedResult' = Finished(TheBuild)
    /\ UNCHANGED <<environments, builds, test_runs, test_jobs, tests, summaryResult, metaVars, yamlVars, workVars, sideVars>>

NextFinished ==
    \/ FinAddTestRun
    \/ FinCompleteTestRun
    \/ FinAddTestJob
    \/ FinFetchTestJob
    \/ EvalFinished

SpecFinished == InitFinished /\ [][NextFinished]_vars

----------------------------------------------------------------------------
(* Test.status, TestSummaryBase and TestSummary *)

Suites == {"s1", "s2"}
Names == {"a", "b"}

\* Test.Meta.ordering = ['name']: the order of two names
NameOrder(n) == IF n = "a" THEN 1 ELSE 2

\* the (result, has_known_issues) pairs the test rows are drawn from
TestOutcomes ==
    {[result |-> Some(TRUE), has_known_issues |-> Some(FALSE)],
     [result |-> None, has_known_issues |-> Some(FALSE)],
     [result |-> Some(FALSE), has_known_issues |-> Some(FALSE)],
     [result |-> Some(FALSE), has_known_issues |-> Some(TRUE)]}

\* Test.status
TestStatus(t) ==
    IF TruthyBool(t.result) THEN "pass"
    ELSE IF t.result = None THEN "skip"
    ELSE IF TruthyBool(t.has_known_issues) THEN "xfail"
    ELSE "fail"

\* TestSummaryBase.tests_total
TestsTotal(s) == s.tests_pass + s.tests_fail + s.tests_xfail + s.tests_skip

ZeroDivisionError == [error |-> TRUE, num |-> 0, den |-> 1]

\* __percent__ with ntests >= 0 for ntests > 0
PercentOfNonNegative(s, ntests) ==
    IF ntests >= 0
    THEN (IF TestsTotal(s) = 0 THEN ZeroDivisionError
          ELSE [error |-> FALSE, num |-> 100 * ntests, den |-> TestsTotal(s)])
    ELSE [error |-> FALSE, num |-> 0, den |-> 1]

\* TestSummaryBase.__percent__: the float 100 * (ntests / tests_total) as the
\* fraction num / den; a division by 0 raises ZeroDivisionError
Percent(s, ntests) ==
    IF ntests > 0
    THEN (IF TestsTotal(s) = 0 THEN ZeroDivisionError
          ELSE [error |-> FALSE, num |-> 100 * ntests, den |-> TestsTotal(s)])
    ELSE [error |-> FALSE, num |-> 0, den |-> 1]

PassPercentage(s) == Percent(s, s.tests_pass)
FailPercentage(s) == Percent(s, s.tests_fail + s.tests_xfail)
SkipPercentage(s) == Percent(s, s.tests_skip)
HasTests(s) == TestsTotal(s) > 0

\* an arbitrary order of the tests of one run that have the same name: the
\* database returns them in an order the code does not fix
TieRank(t) ==
    (IF t.suite = "s1" THEN 0 ELSE 4)
    + (IF TruthyBool(t.result) THEN 0 ELSE IF t.result = None THEN 1
       ELSE IF TruthyBool(t.has_known_issues) THEN 2 ELSE 3)

Before(t, u, rev) ==
    \/ NameOrder(t.name) < NameOrder(u.name)
    \/ /\ NameOrder(t.name) = NameOrder(u.name)
       /\ IF rev THEN TieRank(t) > TieRank(u) ELSE TieRank(t) < TieRank(u)

RECURSIVE Ordered(_, _)
Ordered(rows, rev) ==
    IF rows = {} THEN <<>>
    ELSE LET first == CHOOSE t \in rows : \A u \in rows \ {t} : Before(t, u, rev)
         IN <<first>> \o Ordered(rows \ {first}, rev)

\* run.tests.all()
RunTests(r, rev) == Ordered({t \in tests : t.test_run = r}, rev)

RECURSIVE RunIdsDescendingFrom(_, _)
RunIdsDescendingFrom(b, i) ==
    IF i < 1 THEN <<>>
    ELSE (IF test_runs[i].build = b THEN <<i>> ELSE <<>>)
         \o RunIdsDescendingFrom(b, i - 1)

\* SummaryRuns reading the test runs with order_by('-id')
SummaryRunsDescending(b) == RunIdsDescendingFrom(b, Len(test_runs))

RECURSIVE RunIdsFrom(_, _)
RunIdsFrom(b, i) ==
    IF i > Len(test_runs) THEN <<>>
    ELSE (IF test_runs[i].build = b THEN <<i>> ELSE <<>>) \o RunIdsFrom(b, i + 1)

\* build.test_runs.prefetch_related(...).order_by('id')
SummaryRuns(b) == RunIdsFrom(b, 1)

TestKey(t) ==
    [environment |-> test_runs[t.test_run].environment, suite |-> t.suite, name |-> t.name]

\* tests[key] = test on an OrderedDict kept as a sequence of items: a key
\* that is present keeps its place and gets the new value
RECURSIVE DictPut(_, _, _, _)
DictPut(items, key, value, i) ==
    IF i > Len(items) THEN Append(items, [key |-> key, test |-> value])
    ELSE IF items[i].key = key THEN [items EXCEPT ![i].test = value]
    ELSE DictPut(items, key, value, i + 1)

RECURSIVE PutAll(_, _, _)
PutAll(items, rows, i) ==
    IF i > Len(rows) THEN items
    ELSE PutAll(DictPut(items, TestKey(rows[i]), rows[i], 1), rows, i + 1)

\* for run in test_runs.all(): for test in run.tests.all(): tests[...] = test
RECURSIVE CollectTests(_, _, _, _)
CollectTests(items, runs, i, rev) ==
    IF i > Len(runs) THEN items
    ELSE CollectTests(PutAll(items, RunTests(runs[i], rev), 1), runs, i + 1, rev)

EmptySummary ==
    [called |-> TRUE, tests_pass |-> 0, tests_fail |-> 0, tests_xfail |-> 0,
     tests_skip |-> 0, failures |-> <<>>, tests |-> <<>>]

\* self.failures[env].append(test)
RECURSIVE FailuresAppend(_, _, _, _)
FailuresAppend(failures, env, test, i) ==
    IF i > Len(failures) THEN Append(failures, [env |-> env, tests |-> <<test>>])
    ELSE IF failures[i].env = env
         THEN [failures EXCEPT ![i].tests = Append(@, test)]
         ELSE FailuresAppend(failures, env, test, i + 1)

\* the body of the loop over tests.items()
CountTest(s, test) ==
    LET status == TestStatus(test)
        counted ==
            IF status = "pass" THEN [s EXCEPT !.tests_pass = @ + 1]
            ELSE IF status = "fail" THEN [s EXCEPT !.tests_fail = @ + 1]
            ELSE IF status = "xfail" THEN [s EXCEPT !.tests_xfail = @ + 1]
            ELSE [s EXCEPT !.tests_skip = @ + 1]
    IN IF status = "fail"
       THEN [counted EXCEPT !.failures =
                FailuresAppend(@, test_runs[test.test_run].environment, test, 1)]
       ELSE counted

RECURSIVE CountTests(_, _, _)
CountTests(s, items, i) ==
    IF i > Len(items) THEN s
    ELSE CountTests(CountTest(s, items[i].test), items, i + 1)

\* TestSummary.__init__; rev is the order in which the database returns the
\* tests of one run that have the same name
TestSummary(b, rev) ==
    LET items == CollectTests(<<>>, SummaryRuns(b), 1, rev)
    IN CountTests([EmptySummary EXCEPT !.tests = items], items, 1)

\* the four counts of a summary
Counts(s) ==
    [tests_pass |-> s.tests_pass, tests_fail |-> s.tests_fail,
     tests_xfail |-> s.tests_xfail, tests_skip |-> s.tests_skip]

InsertTest(r, suite, name, outcome) ==
    /\ tests' = tests \cup
         {[test_run |-> r, suite |-> suite, name |-> name,
           result |-> outcome.result, has_known_issues |-> outcome.has_known_issues]}
    /\ tests' # tests

AddTest(r, suite, name, outcome) ==
    /\ Cardinality(tests) < MaxTests
    /\ InsertTest(r, suite, name, outcome)

----------------------------------------------------------------------------
(* The test summary on its own: any test runs and tests of one build *)

SummaryEnvironments ==
    [e \in ProjectEnvIds \cup {ForeignEnvId} |->
        [project |-> IF e = ForeignEnvId THEN OtherProject ELSE TheProject,
         expected_test_runs |-> None]]

InitSummary ==
    /\ environments = SummaryEnvironments
    /\ builds = TwoBuilds
    /\ test_runs = <<>>
    /\ test_jobs = <<>>
    /\ tests = {}
    /\ finishedResult = NoCall
    /\ summaryResult = NoCall
    /\ run_metadata = <<>>
    /\ metadataResult = NoCall
    /\ regressions_field = None
    /\ yamlResult = NoCall
    /\ metrics = <<>>
    /\ NoWork
    /\ NoSide

SumAddTestRun ==
    /\ \E e \in ProjectEnvIds : AddTestRun(TheBuild, e, TRUE)
    /\ summaryResult' = NoCall
    /\ UNCHANGED <<environments, builds, test_jobs, tests, finishedResult, metaVars, yamlVars, workVars, sideVars>>

SumAddTest ==
    /\ \E r \in 1..Len(test_runs), suite \in Suites, name \in Names,
          outcome \in TestOutcomes : AddTest(r, suite, name, outcome)
    /\ summaryResult' = NoCall
    /\ UNCHANGED <<environments, builds, test_runs, test_jobs, finishedResult, metaVars, yamlVars, workVars, sideVars>>

EvalSummary ==
    /\ summaryResult = NoCall
    /\ \E rev \in BOOLEAN : summaryResult' = TestSummary(TheBuild, rev)
    /\ UNCHANGED <<environments, builds, test_runs, test_jobs, tests, finishedResult, metaVars, yamlVars, workVars, sideVars>>

NextSummary ==
    \/ SumAddTestRun
    \/ SumAddTest
    \/ EvalSummary

SpecSummary == InitSummary /\ [][NextSummary]_vars

----------------------------------------------------------------------------
(* Build.metadata *)

\* the JSON values a metadata map holds: integers, strings (here the decimal
\* strings "1", "2", ...), booleans and lists
IntV(n) == [t |-> "int", v |-> n, items |-> <<>>]
StrV(n) == [t |-> "str", v |-> n, items |-> <<>>]
BoolV(b) == [t |-> "bool", v |-> IF b THEN 1 ELSE 0, items |-> <<>>]
ListV(xs) == [t |-> "list", v |-> 0, items |-> xs]

\* Python's ==: True == 1, a string equals no number, lists by their items
RECURSIVE PyEq(_, _)
PyEq(x, y) ==
    IF x.t \in {"int", "bool"} /\ y.t \in {"int", "bool"} THEN x.v = y.v
    ELSE IF x.t = "str" /\ y.t = "str" THEN x.v = y.v
    ELSE IF x.t = "list" /\ y.t = "list"
         THEN /\ Len(x.items) = Len(y.items)
              /\ \A i \in 1..Len(x.items) : PyEq(x.items[i], y.items[i])
         ELSE FALSE

\* repr() and str() as sequences of character codes
RECURSIVE PyRepr(_)
RECURSIVE JoinRepr(_, _)
JoinRepr(xs, i) ==
    IF i > Len(xs) THEN <<>>
    ELSE (IF i > 1 THEN <<44, 32>> ELSE <<>>) \o PyRepr(xs[i]) \o JoinRepr(xs, i + 1)

PyRepr(x) ==
    IF x.t = "int" THEN <<48 + x.v>>
    ELSE IF x.t = "str" THEN <<39, 48 + x.v, 39>>
    ELSE IF x.t = "bool" THEN (IF x.v = 1 THEN <<84, 114, 117, 101>>
                               ELSE <<70, 97, 108, 115, 101>>)
    ELSE <<91>> \o JoinRepr(x.items, 1) \o <<93>>

PyStr(x) == IF x.t = "str" THEN <<48 + x.v>> ELSE PyRepr(x)

\* the order of two strings
RECURSIVE StrLess(_, _, _)
StrLess(a, b, i) ==
    IF i > Len(b) THEN FALSE
    ELSE IF i > Len(a) THEN TRUE
    ELSE IF a[i] < b[i] THEN TRUE
    ELSE IF a[i] > b[i] THEN FALSE
    ELSE StrLess(a, b, i + 1)

\* sorted(values, key=str): a stable sort, by insertion
RECURSIVE InsertSorted(_, _, _)
InsertSorted(sorted, x, i) ==
    IF i > Len(sorted) THEN Append(sorted, x)
    ELSE IF StrLess(PyStr(x), PyStr(sorted[i]), 1)
         THEN SubSeq(sorted, 1, i - 1) \o <<x>> \o SubSeq(sorted, i, Len(sorted))
         ELSE InsertSorted(sorted, x, i + 1)

RECURSIVE SortedByStr(_, _, _)
SortedByStr(values, i, acc) ==
    IF i > Len(values) THEN acc
    ELSE SortedByStr(values, i + 1, InsertSorted(acc, values[i], 1))

\* value in list
PyIn(x, list) == \E i \in 1..Len(list) : PyEq(x, list[i])

\* MergedValue keeping the list for a single value
MergedValueAlwaysList(values) == ListV(SortedByStr(values, 1, <<>>))

\* the second loop of Build.metadata, for one key
MergedValue(values) ==
    IF Len(values) = 1 THEN values[1]
    ELSE ListV(SortedByStr(values, 1, <<>>))

\* the first loop of Build.metadata: the values seen for each key, in the
\* order of their first occurrence; collected is a map from keys to lists
RECURSIVE CollectMetadata(_, _, _)
CollectMetadata(collected, runs, i) ==
    IF i > Len(runs) THEN collected
    ELSE LET m == runs[i]
             keys == DOMAIN collected \cup DOMAIN m
             next == [k \in keys |->
                        LET sofar == IF k \in DOMAIN collected THEN collected[k] ELSE <<>>
                        IN IF k \in DOMAIN m /\ ~PyIn(m[k], sofar)
                           THEN Append(sofar, m[k]) ELSE sofar]
         IN CollectMetadata(next, runs, i + 1)

\* a map without keys
EmptyMap == [k \in {} |-> IntV(0)]

\* Build.metadata of a build whose test runs carry the maps runs, read in
\* that order
BuildMetadata(runs) ==
    LET collected == CollectMetadata(EmptyMap, runs, 1)
    IN [k \in DOMAIN collected |-> MergedValue(collected[k])]

MetadataKeys == {"k1", "k2"}
MetadataValues ==
    {IntV(1), IntV(2), StrV(1), BoolV(TRUE), ListV(<<IntV(1), IntV(2)>>)}
MetadataMaps == UNION {[K -> MetadataValues] : K \in SUBSET MetadataKeys}

\* the orders in which the database may return n rows
Orders(n) == {p \in [1..n -> 1..n] : \A i, j \in 1..n : p[i] = p[j] => i = j}

----------------------------------------------------------------------------
(* The metadata merge on its own: any metadata maps of the test runs *)

InitMetadata ==
    /\ environments = SummaryEnvironments
    /\ builds = TwoBuilds
    /\ test_runs = <<>>
    /\ test_jobs = <<>>
    /\ tests = {}
    /\ finishedResult = NoCall
    /\ summaryResult = NoCall
    /\ run_metadata = <<>>
    /\ metadataResult = NoCall
    /\ regressions_field = None
    /\ yamlResult = NoCall
    /\ metrics = <<>>
    /\ NoWork
    /\ NoSide

\* a test run with its metadata is received
AddRunMetadata ==
    /\ Len(run_metadata) < MaxMetaRuns
    /\ \E m \in MetadataMaps : run_metadata' = Append(run_metadata, m)
    /\ metadataResult' = NoCall
    /\ UNCHANGED <<environments, builds, test_runs, test_jobs, tests,
                   finishedResult, summaryResult, yamlVars, workVars, sideVars>>

\* Build.metadata is read
EvalMetadata ==
    /\ metadataResult = NoCall
    /\ \E p \in Orders(Len(run_metadata)) :
         metadataResult' =
            [called |-> TRUE,
             merged |-> BuildMetadata([i \in 1..Len(run_metadata) |-> run_metadata[p[i]]]),
             copies |-> 0,
             remerged |-> EmptyMap]
    /\ UNCHANGED <<environments, builds, test_runs, test_jobs, tests,
                   finishedResult, summaryResult, run_metadata, yamlVars, workVars, sideVars>>

\* the merged map becomes the metadata of n test runs of a build, whose
\* Build.metadata is read
RemergeMetadata ==
    /\ metadataResult.called
    /\ metadataResult.copies = 0
    /\ \E n \in 1..2 :
         metadataResult' =
            [metadataResult EXCEPT
                !.copies = n,
                !.remerged = BuildMetadata([i \in 1..n |-> metadataResult.merged])]
    /\ UNCHANGED <<environments, builds, test_runs, test_jobs, tests,
                   finishedResult, summaryResult, run_metadata, yamlVars, workVars, sideVars>>

NextMetadata ==
    \/ AddRunMetadata
    \/ EvalMetadata
    \/ RemergeMetadata

SpecMetadata == InitMetadata /\ [][NextMetadata]_vars

----------------------------------------------------------------------------
(* The stored comparison: yaml.dump on write, yaml.load on read *)

\* A YAML text is a sequence of lines. A line is a block mapping entry
\* "key: value", the flow indicator "{" that nothing closes, or a plain
\* scalar.
EntryLine(k, v) == [kind |-> "entry", key |-> k, value |-> v]
BraceLine == [kind |-> "brace", key |-> 0, value |-> <<>>]
ScalarLine == [kind |-> "scalar", key |-> 0, value |-> <<>>]

\* the comparison maps environments to the names of their tests
ComparisonKeys == {1, 2}
ComparisonValues == {<<"a">>, <<"b">>}
ComparisonMaps == UNION {[K -> ComparisonValues] : K \in SUBSET ComparisonKeys}

YamlLines ==
    {EntryLine(k, v) : k \in ComparisonKeys, v \in ComparisonValues}
    \cup {BraceLine, ScalarLine}

\* yaml.dump of a mapping: one entry a key, the keys sorted
RECURSIVE YamlDumpKeys(_, _)
YamlDumpKeys(m, keys) ==
    IF keys = {} THEN <<>>
    ELSE LET k == CHOOSE x \in keys : \A y \in keys : x <= y
         IN <<EntryLine(k, m[k])>> \o YamlDumpKeys(m, keys \ {k})

YamlDump(m) == YamlDumpKeys(m, DOMAIN m)

\* a mapping without keys: {}
EmptyMapping == [k \in {} |-> <<>>]

RECURSIVE YamlEntries(_, _, _)
YamlEntries(text, i, m) ==
    IF i > Len(text) THEN m
    ELSE YamlEntries(text, i + 1,
            [k \in DOMAIN m \cup {text[i].key} |->
                IF k = text[i].key THEN text[i].value ELSE m[k]])

\* yaml.load: an empty document is None, entries make a mapping, plain
\* scalars make a string, anything else raises a YAMLError
YamlLoad(text) ==
    IF Len(text) = 0 THEN [kind |-> "none", map |-> EmptyMapping]
    ELSE IF \A i \in 1..Len(text) : text[i].kind = "entry"
         THEN [kind |-> "mapping", map |-> YamlEntries(text, 1, EmptyMapping)]
    ELSE IF \A i \in 1..Len(text) : text[i].kind = "scalar"
         THEN [kind |-> "string", map |-> EmptyMapping]
    ELSE [kind |-> "raised", map |-> EmptyMapping]

\* ProjectStatus.__get_yaml_field__
GetYamlField(field_value) ==
    IF field_value # None THEN YamlLoad(Val(field_value))
    ELSE [kind |-> "mapping", map |-> EmptyMapping]

\* regressions = yaml.dump(comparison.regressions) if comparison.regressions,
\* None otherwise
DumpIfAny(m) == IF DOMAIN m # {} THEN Some(YamlDump(m)) ELSE None

----------------------------------------------------------------------------
(* The stored comparison on its own: written by create_or_update or edited *)
(* as a text field, and read back                                          *)

InitYaml ==
    /\ environments = SummaryEnvironments
    /\ builds = TwoBuilds
    /\ test_runs = <<>>
    /\ test_jobs = <<>>
    /\ tests = {}
    /\ finishedResult = NoCall
    /\ summaryResult = NoCall
    /\ run_metadata = <<>>
    /\ metadataResult = NoCall
    /\ regressions_field = None
    /\ yamlResult = NoCall
    /\ metrics = <<>>
    /\ NoWork
    /\ NoSide

\* create_or_update stores the comparison it computed
StoreComparison ==
    /\ \E m \in ComparisonMaps : regressions_field' = DumpIfAny(m)
    /\ yamlResult' = NoCall
    /\ UNCHANGED <<environments, builds, test_runs, test_jobs, tests,
                   finishedResult, summaryResult, metaVars, workVars, sideVars>>

\* the TextField is assigned a text and saved
EditField ==
    /\ regressions_field # None => Len(Val(regressions_field)) < MaxYamlLines
    /\ \E line \in YamlLines :
         regressions_field' =
            IF regressions_field = None THEN Some(<<line>>)
            ELSE Some(Append(Val(regressions_field), line))
    /\ yamlResult' = NoCall
    /\ UNCHANGED <<environments, builds, test_runs, test_jobs, tests,
                   finishedResult, summaryResult, metaVars, workVars, sideVars>>

\* the TextField (blank=True) is saved empty
BlankField ==
    /\ regressions_field' = Some(<<>>)
    /\ yamlResult' = NoCall
    /\ UNCHANGED <<environments, builds, test_runs, test_jobs, tests,
                   finishedResult, summaryResult, metaVars, workVars, sideVars>>

\* get_regressions
GetRegressions ==
    /\ yamlResult = NoCall
    /\ yamlResult' = [called |-> TRUE, result |-> GetYamlField(regressions_field)]
    /\ UNCHANGED <<environments, builds, test_runs, test_jobs, tests,
                   finishedResult, summaryResult, metaVars, regressions_field, workVars, sideVars>>

NextYaml ==
    \/ StoreComparison
    \/ EditField
    \/ BlankField
    \/ GetRegressions

SpecYaml == InitYaml /\ [][NextYaml]_vars

----------------------------------------------------------------------------
(* The previous build of ProjectStatus.create_or_update *)

\* a ProjectStatus row as create() leaves it when only finished is given
BlankStatus(b, finished) ==
    [build |-> b, tests_pass |-> 0, tests_fail |-> 0, tests_xfail |-> 0,
     tests_skip |-> 0, metrics_summary |-> 0, has_metrics |-> FALSE,
     last_updated |-> None, finished |-> finished, test_runs_total |-> 0,
     test_runs_completed |-> 0, test_runs_incomplete |-> 0,
     regressions |-> None, fixes |-> None]

\* status__finished=True
HasFinishedStatus(p) ==
    \E i \in 1..Len(statuses) : statuses[i].build = p /\ statuses[i].finished

\* the filter without status__finished=True: any status qualifies
QualifyingWithAnyStatus(b) ==
    {p \in DOMAIN builds :
        /\ builds[p].project = builds[b].project
        /\ builds[p].datetime < builds[b].datetime
        /\ \E i \in 1..Len(statuses) : statuses[i].build = p}

\* Build.objects.filter(status__finished=True, datetime__lt=build.datetime,
\* project=build.project)
Qualifying(b) ==
    {p \in DOMAIN builds :
        /\ builds[p].project = builds[b].project
        /\ builds[p].datetime < builds[b].datetime
        /\ HasFinishedStatus(p)}

\* On the Build model the lookup build__datetime of order_by follows the
\* reverse side of Build.patch_baseline: the query LEFT OUTER JOINs every
\* qualifying build with the builds that name it as their patch_baseline
\* and orders by the datetime of those. A build nobody names has a NULL key.
PatchBuildsOf(p) == {r \in DOMAIN builds : builds[r].patch_baseline = Some(p)}

JoinedRows(b) ==
    UNION {IF PatchBuildsOf(p) = {}
           THEN {[build |-> p, key |-> None]}
           ELSE {[build |-> p, key |-> Some(builds[r].datetime)] : r \in PatchBuildsOf(p)}
           : p \in Qualifying(b)}

\* the order of two keys; whether NULL sorts above or below every value
\* depends on the database (PostgreSQL: above, SQLite and MySQL: below)
KeyLessEq(k1, k2, nullsLargest) ==
    IF k1 = None THEN (k2 = None \/ ~nullsLargest)
    ELSE IF k2 = None THEN nullsLargest
    ELSE Val(k1) <= Val(k2)

\* .order_by('build__datetime').last(): a row of the greatest key; which of
\* several rows of the same key is not fixed
PreviousBuildCandidates(b, nullsLargest) ==
    {row.build : row \in {r \in JoinedRows(b) :
        \A o \in JoinedRows(b) : KeyLessEq(o.key, r.key, nullsLargest)}}

PreviousBuilds(b, nullsLargest) ==
    IF JoinedRows(b) = {} THEN {None}
    ELSE {Some(p) : p \in PreviousBuildCandidates(b, nullsLargest)}

----------------------------------------------------------------------------
(* The previous-build query on its own: any builds and statuses *)

BuildIds == 1..MaxBuilds

BuildTables ==
    {t \in [BuildIds -> [project : {TheProject, OtherProject},
                         datetime : BuildIds,
                         patch_baseline : {None} \cup {Some(i) : i \in BuildIds}]] :
        \A i \in BuildIds : t[i].patch_baseline # Some(i)}

RECURSIVE StatusTable(_, _)
StatusTable(flags, i) ==
    IF i > MaxBuilds THEN <<>>
    ELSE (IF flags[i] = "none" THEN <<>>
          ELSE <<BlankStatus(i, flags[i] = "finished")>>) \o StatusTable(flags, i + 1)

InitPrevious ==
    /\ environments = SummaryEnvironments
    /\ builds \in BuildTables
    /\ test_runs = <<>>
    /\ test_jobs = <<>>
    /\ tests = {}
    /\ finishedResult = NoCall
    /\ summaryResult = NoCall
    /\ run_metadata = <<>>
    /\ metadataResult = NoCall
    /\ regressions_field = None
    /\ yamlResult = NoCall
    /\ metrics = <<>>
    /\ \E flags \in [BuildIds -> {"none", "unfinished", "finished"}] :
         statuses = StatusTable(flags, 1)
    /\ previousResult = NoCall
    /\ clock = 0
    /\ pc = [w \in Workers |-> "idle"]
    /\ local = [w \in Workers |-> NoCall]
    /\ NoSide

\* lines 753-757 for build b
QueryPrevious ==
    /\ previousResult = NoCall
    /\ \E b \in DOMAIN builds, nullsLargest \in BOOLEAN :
         \E p \in PreviousBuilds(b, nullsLargest) :
            previousResult' = [called |-> TRUE, build |-> b, previous |-> p]
    /\ UNCHANGED <<environments, builds, test_runs, test_jobs, tests,
                   finishedResult, summaryResult, metaVars, yamlVars,
                   statuses, metrics, clock, pc, local, sideVars>>

NextPrevious ==
    \/ QueryPrevious

SpecPrevious == InitPrevious /\ [][NextPrevious]_vars

----------------------------------------------------------------------------
(* MetricsSummary and the comparison of two builds *)

\* the product of a list of metric results
RECURSIVE Product(_, _)
Product(values, i) ==
    IF i > Len(values) THEN 1 ELSE values[i] * Product(values, i + 1)

RECURSIVE Power(_, _)
Power(r, n) == IF n = 0 THEN 1 ELSE r * Power(r, n - 1)

\* squad.core.statistics.geomean: the n-th root of the product of the
\* values, to the integer below; 0 for no values
GeoMean(values) ==
    IF Len(values) = 0 THEN 0
    ELSE LET p == Product(values, 1)
             n == Len(values)
         IN CHOOSE r \in 0..p : Power(r, n) <= p /\ p < Power(r + 1, n)

\* Metric.objects.filter(test_run__build_id=build.id): the results
RECURSIVE MetricValuesFrom(_, _)
MetricValuesFrom(b, i) ==
    IF i > Len(metrics) THEN <<>>
    ELSE (IF test_runs[metrics[i].test_run].build = b
          THEN <<metrics[i].result>> ELSE <<>>) \o MetricValuesFrom(b, i + 1)

\* MetricsSummary.__init__
MetricsSummary(b) ==
    LET values == MetricValuesFrom(b, 1)
    IN [value |-> GeoMean(values), has_metrics |-> Len(values) > 0]

\* the status of the test of one identity among the tests of a build that
\* are left after the duplicates are dropped; "absent" without such a test
StatusOf(items, key) ==
    IF \E i \in 1..Len(items) : items[i].key = key
    THEN TestStatus(items[CHOOSE i \in 1..Len(items) : items[i].key = key].test)
    ELSE "absent"

\* the identities of the target build, in its order, whose status went
\* from one of the statuses from to one of the statuses to
RECURSIVE Transitions(_, _, _, _, _)
Transitions(baseline, target, from, to, i) ==
    IF i > Len(target) THEN <<>>
    ELSE (IF /\ StatusOf(baseline, target[i].key) \in from
             /\ TestStatus(target[i].test) \in to
          THEN <<target[i].key>> ELSE <<>>)
         \o Transitions(baseline, target, from, to, i + 1)

\* the transitions by environment: environment -> names of the tests
TransitionsByEnvironment(found) ==
    [e \in {found[i].environment : i \in 1..Len(found)} |->
        LET ofEnv == SelectSeq(found, LAMBDA k : k.environment = e)
        IN [i \in 1..Len(ofEnv) |-> ofEnv[i].name]]

\* TestComparison(previous_build, build): regressions are the tests that
\* went from pass to fail or xfail, fixes those that went from fail or
\* xfail to pass
TestComparison(previous, b, rev) ==
    LET baseline == TestSummary(previous, rev).tests
        target == TestSummary(b, rev).tests
    IN [regressions |-> TransitionsByEnvironment(
            Transitions(baseline, target, {"pass"}, {"fail", "xfail"}, 1)),
        fixes |-> TransitionsByEnvironment(
            Transitions(baseline, target, {"fail", "xfail"}, {"pass"}, 1))]

----------------------------------------------------------------------------
(* ProjectStatus.create_or_update, a step for every access to the database *)

\* the tables of the build's data, and what the evaluations on their own left
tableVars == <<environments, builds, test_runs, test_jobs, tests, metrics>>
resultVars == <<finishedResult, summaryResult, metaVars, yamlVars, previousResult>>

NoCounts == [tests_pass |-> 0, tests_fail |-> 0, tests_xfail |-> 0, tests_skip |-> 0]

\* the local variables of a call for build b that has read nothing yet
NewCall(b) ==
    [called |-> TRUE, build |-> b, test_summary |-> NoCounts,
     metrics_summary |-> [value |-> 0, has_metrics |-> FALSE], now |-> 0,
     test_runs_total |-> 0, test_runs_completed |-> 0, test_runs_incomplete |-> 0,
     regressions |-> None, fixes |-> None, finished |-> FALSE,
     created |-> FALSE, retried |-> FALSE, id |-> 0,
     status |-> BlankStatus(b, FALSE), error |-> "none", returned |-> None]

\* the dict data with the build: the row that get_or_create creates
Data(l) ==
    [build |-> l.build,
     tests_pass |-> l.test_summary.tests_pass,
     tests_fail |-> l.test_summary.tests_fail,
     tests_xfail |-> l.test_summary.tests_xfail,
     tests_skip |-> l.test_summary.tests_skip,
     metrics_summary |-> l.metrics_summary.value,
     has_metrics |-> l.metrics_summary.has_metrics,
     last_updated |-> Some(l.now),
     finished |-> l.finished,
     test_runs_total |-> l.test_runs_total,
     test_runs_completed |-> l.test_runs_completed,
     test_runs_incomplete |-> l.test_runs_incomplete,
     regressions |-> l.regressions,
     fixes |-> l.fixes]

\* the assignments of the update path without the one to status.regressions
AssignedWithoutRegressions(status, l) ==
    [status EXCEPT
        !.tests_pass = l.test_summary.tests_pass,
        !.tests_fail = l.test_summary.tests_fail,
        !.tests_xfail = l.test_summary.tests_xfail,
        !.tests_skip = l.test_summary.tests_skip,
        !.metrics_summary = l.metrics_summary.value,
        !.has_metrics = l.metrics_summary.has_metrics,
        !.last_updated = Some(l.now),
        !.finished = l.finished,
        !.build = l.build,
        !.test_runs_total = l.test_runs_total,
        !.test_runs_completed = l.test_runs_completed,
        !.test_runs_incomplete = l.test_runs_incomplete,
        !.fixes = l.fixes]

\* the assignments of the update path to the status that was read
Assigned(status, l) ==
    [status EXCEPT
        !.tests_pass = l.test_summary.tests_pass,
        !.tests_fail = l.test_summary.tests_fail,
        !.tests_xfail = l.test_summary.tests_xfail,
        !.tests_skip = l.test_summary.tests_skip,
        !.metrics_summary = l.metrics_summary.value,
        !.has_metrics = l.metrics_summary.has_metrics,
        !.last_updated = Some(l.now),
        !.finished = l.finished,
        !.build = l.build,
        !.test_runs_total = l.test_runs_total,
        !.test_runs_completed = l.test_runs_completed,
        !.test_runs_incomplete = l.test_runs_incomplete,
        !.regressions = l.regressions,
        !.fixes = l.fixes]

\* a table without a constraint on ProjectStatus.build
NoConstraintOnBuild(rows, b) == TRUE

\* build = models.OneToOneField(...): the database takes a row for build b
\* only if no row has that build
UniqueBuild(rows, b) == \A i \in 1..Len(rows) : rows[i].build # b

\* the condition of the update path without the comparison of the totals
GuardWithoutTotals(created, test_summary, status) == ~created

\* not created and test_summary.tests_total >= status.tests_total
Guard(created, test_summary, status) ==
    ~created /\ TestsTotal(test_summary) >= TestsTotal(status)

InCall(w) == pc[w] \notin {"idle", "done", "raised"}

\* time passes
Tick ==
    /\ clock < MaxClock
    /\ clock' = clock + 1

\* test_summary = build.test_summary
Begin(w, b) ==
    /\ ~InCall(w)
    /\ Tick
    /\ \E rev \in BOOLEAN :
         local' = [local EXCEPT ![w] =
            [NewCall(b) EXCEPT !.test_summary = Counts(TestSummary(b, rev))]]
    /\ pc' = [pc EXCEPT ![w] = "metrics"]
    /\ UNCHANGED <<tableVars, resultVars, statuses, sideVars>>

\* metrics_summary = MetricsSummary(build); now = timezone.now()
ReadMetrics(w) ==
    /\ pc[w] = "metrics"
    /\ local' = [local EXCEPT ![w].metrics_summary = MetricsSummary(local[w].build),
                              ![w].now = clock]
    /\ pc' = [pc EXCEPT ![w] = "count_total"]
    /\ UNCHANGED <<tableVars, resultVars, statuses, clock, sideVars>>

BuildRuns(b) == {i \in 1..Len(test_runs) : test_runs[i].build = b}

\* test_runs_total = build.test_runs.count()
CountTotal(w) ==
    /\ pc[w] = "count_total"
    /\ local' = [local EXCEPT ![w].test_runs_total =
                    Cardinality(BuildRuns(local[w].build))]
    /\ pc' = [pc EXCEPT ![w] = "count_completed"]
    /\ UNCHANGED <<tableVars, resultVars, statuses, clock, sideVars>>

\* test_runs_completed = build.test_runs.filter(completed=True).count()
CountCompleted(w) ==
    /\ pc[w] = "count_completed"
    /\ local' = [local EXCEPT ![w].test_runs_completed =
                    Cardinality({i \in BuildRuns(local[w].build) : test_runs[i].completed})]
    /\ pc' = [pc EXCEPT ![w] = "count_incomplete"]
    /\ UNCHANGED <<tableVars, resultVars, statuses, clock, sideVars>>

\* test_runs_incomplete = build.test_runs.filter(completed=False).count()
CountIncomplete(w) ==
    /\ pc[w] = "count_incomplete"
    /\ local' = [local EXCEPT ![w].test_runs_incomplete =
                    Cardinality({i \in BuildRuns(local[w].build) : ~test_runs[i].completed})]
    /\ pc' = [pc EXCEPT ![w] = "previous"]
    /\ UNCHANGED <<tableVars, resultVars, statuses, clock, sideVars>>

\* the previous build and the comparison with it
FindPrevious(w) ==
    /\ pc[w] = "previous"
    /\ \E nullsLargest \in BOOLEAN, rev \in BOOLEAN :
         \E p \in PreviousBuilds(local[w].build, nullsLargest) :
            LET comparison ==
                    IF p = None
                    THEN [regressions |-> EmptyMapping, fixes |-> EmptyMapping]
                    ELSE TestComparison(Val(p), local[w].build, rev)
            IN local' = [local EXCEPT
                    ![w].regressions = DumpIfAny(comparison.regressions),
                    ![w].fixes = DumpIfAny(comparison.fixes)]
    /\ pc' = [pc EXCEPT ![w] = "finished"]
    /\ UNCHANGED <<tableVars, resultVars, statuses, clock, sideVars>>

\* an exception leaves the call
Raise(w, error) ==
    /\ local' = [local EXCEPT ![w].error = error]
    /\ pc' = [pc EXCEPT ![w] = "raised"]

\* finished, _ = build.finished
CheckFinished(w) ==
    /\ pc[w] = "finished"
    /\ LET fin == Finished(local[w].build)
       IN IF fin.raised
          THEN Raise(w, "KeyError")
          ELSE /\ local' = [local EXCEPT ![w].finished = fin.isFinished]
               /\ pc' = [pc EXCEPT ![w] = "get"]
    /\ UNCHANGED <<tableVars, resultVars, statuses, clock, sideVars>>

\* the ids of the statuses of build b
StatusIds(b) == {i \in 1..Len(statuses) : statuses[i].build = b}

\* get_or_create returned (status, False) with the row of id i: the
\* condition of the update path is evaluated on what was read
Fetched(w, i) ==
    LET l == [local[w] EXCEPT !.id = i, !.status = statuses[i]]
    IN IF Guard(l.created, l.test_summary, l.status)
       THEN /\ local' = [local EXCEPT ![w] = l]
            /\ pc' = [pc EXCEPT ![w] = "update"]
       ELSE /\ local' = [local EXCEPT ![w] = [l EXCEPT !.returned = Some(l.status)]]
            /\ pc' = [pc EXCEPT ![w] = "done"]

\* get_or_create: self.get(build=build)
Get(w) ==
    /\ pc[w] = "get"
    /\ LET ids == StatusIds(local[w].build)
       IN IF ids = {}
          THEN /\ pc' = [pc EXCEPT ![w] = "create"]
               /\ local' = local
          ELSE IF Cardinality(ids) > 1
          THEN Raise(w, "MultipleObjectsReturned")
          ELSE Fetched(w, CHOOSE i \in ids : TRUE)
    /\ UNCHANGED <<tableVars, resultVars, statuses, clock, sideVars>>

\* get_or_create: self.create(build=build, **defaults); a created status is
\* returned as it is
Create(w) ==
    /\ pc[w] = "create"
    /\ IF UniqueBuild(statuses, local[w].build)
       THEN /\ statuses' = Append(statuses, Data(local[w]))
            /\ local' = [local EXCEPT ![w].created = TRUE,
                                      ![w].id = Len(statuses) + 1,
                                      ![w].status = Data(local[w]),
                                      ![w].returned = Some(Data(local[w]))]
            /\ pc' = [pc EXCEPT ![w] = "done"]
       ELSE /\ statuses' = statuses
            /\ local' = [local EXCEPT ![w].retried = TRUE]
            /\ pc' = [pc EXCEPT ![w] = "get_again"]
    /\ UNCHANGED <<tableVars, resultVars, clock, sideVars>>

\* get_or_create: self.get(build=build) after the IntegrityError of create
GetAgain(w) ==
    /\ pc[w] = "get_again"
    /\ LET ids == StatusIds(local[w].build)
       IN IF ids = {}
          THEN Raise(w, "IntegrityError")
          ELSE IF Cardinality(ids) > 1
          THEN Raise(w, "MultipleObjectsReturned")
          ELSE Fetched(w, CHOOSE i \in ids : TRUE)
    /\ UNCHANGED <<tableVars, resultVars, statuses, clock, sideVars>>

\* the update path: finished, _ = build.finished once more, and the
\* assignments to status
Update(w) ==
    /\ pc[w] = "update"
    /\ LET fin == Finished(local[w].build)
           l == [local[w] EXCEPT !.finished = fin.isFinished]
       IN IF fin.raised
          THEN Raise(w, "KeyError")
          ELSE /\ local' = [local EXCEPT ![w] =
                               [l EXCEPT !.status = Assigned(l.status, l)]]
               /\ pc' = [pc EXCEPT ![w] = "save"]
    /\ UNCHANGED <<tableVars, resultVars, statuses, clock, sideVars>>

\* status.save(); return status
Save(w) ==
    /\ pc[w] = "save"
    /\ statuses' = [statuses EXCEPT ![local[w].id] = local[w].status]
    /\ local' = [local EXCEPT ![w].returned = Some(local[w].status)]
    /\ pc' = [pc EXCEPT ![w] = "done"]
    /\ UNCHANGED <<tableVars, resultVars, clock, sideVars>>

----------------------------------------------------------------------------
(* The status snapshotter with the ingestion of results: the earlier build *)
(* has its results, the build gets its results while it is processed      *)

\* the two metric results the model draws from
MetricValues == {2, 8}

\* the tests that arrive pass or fail
StatusOutcomes ==
    {outcome \in TestOutcomes :
        outcome.result # None /\ ~TruthyBool(outcome.has_known_issues)}

\* environment 1 of the project expects any number of test runs, environment
\* 2 none; environment 3 belongs to another project
StatusEnvironments ==
    [e \in ProjectEnvIds \cup {ForeignEnvId} |->
        [project |-> IF e = ForeignEnvId THEN OtherProject ELSE TheProject,
         expected_test_runs |-> IF e = 2 THEN Some(0) ELSE None]]

InitStatus ==
    /\ environments = StatusEnvironments
    /\ builds = TwoBuilds
    /\ test_runs = <<[build |-> EarlierBuild, environment |-> 1, completed |-> TRUE],
                     [build |-> TheBuild, environment |-> 1, completed |-> FALSE]>>
    /\ test_jobs = <<>>
    /\ tests = {[test_run |-> 1, suite |-> "s1", name |-> "a",
                 result |-> Some(TRUE), has_known_issues |-> Some(FALSE)],
                [test_run |-> 1, suite |-> "s1", name |-> "b",
                 result |-> Some(FALSE), has_known_issues |-> Some(FALSE)]}
    /\ finishedResult = NoCall
    /\ summaryResult = NoCall
    /\ run_metadata = <<>>
    /\ metadataResult = NoCall
    /\ regressions_field = None
    /\ yamlResult = NoCall
    /\ metrics = <<>>
    /\ NoWork
    /\ NoSide

\* a test run of the build arrives, in an environment of its project
StatusAddTestRun ==
    /\ Tick
    /\ \E c \in BOOLEAN : InsertTestRun(TheBuild, 1, c)
    /\ UNCHANGED <<environments, builds, test_jobs, tests, metrics, resultVars,
                   statuses, pc, local, sideVars>>

StatusCompleteTestRun ==
    /\ Tick
    /\ \E i \in BuildRuns(TheBuild) : CompleteTestRun(i)
    /\ UNCHANGED <<environments, builds, test_jobs, tests, metrics, resultVars,
                   statuses, pc, local, sideVars>>

StatusAddTest ==
    /\ Tick
    /\ \E r \in BuildRuns(TheBuild), name \in Names, outcome \in StatusOutcomes :
         InsertTest(r, "s1", name, outcome)
    /\ UNCHANGED <<environments, builds, test_runs, test_jobs, metrics, resultVars,
                   statuses, pc, local, sideVars>>

\* a test of the build is deleted
StatusDeleteTest ==
    /\ Tick
    /\ \E t \in tests :
         /\ t.test_run \in BuildRuns(TheBuild)
         /\ tests' = tests \ {t}
    /\ UNCHANGED <<environments, builds, test_runs, test_jobs, metrics, resultVars,
                   statuses, pc, local, sideVars>>

StatusAddMetric ==
    /\ Tick
    /\ \E r \in BuildRuns(TheBuild), v \in MetricValues :
         metrics' = Append(metrics, [test_run |-> r, result |-> v])
    /\ UNCHANGED <<environments, builds, test_runs, test_jobs, tests, resultVars,
                   statuses, pc, local, sideVars>>

\* a call starts while no other call is running
SequentialBegin ==
    \E b \in DOMAIN builds :
        /\ \A v \in Workers : ~InCall(v)
        /\ Begin("w1", b)

\* a call starts; the workers are alike, and the first call of all is
\* the one of worker w1
ConcurrentBegin ==
    \E w \in Workers :
        /\ w = "w1" \/ local["w1"].called
        /\ Begin(w, TheBuild)

\* calls one after the other
NextSequential ==
    \/ StatusAddTestRun
    \/ StatusCompleteTestRun
    \/ StatusAddTest
    \/ StatusDeleteTest
    \/ StatusAddMetric
    \/ SequentialBegin
    \/ \E w \in Workers : ReadMetrics(w)
    \/ \E w \in Workers : CountTotal(w)
    \/ \E w \in Workers : CountCompleted(w)
    \/ \E w \in Workers : CountIncomplete(w)
    \/ \E w \in Workers : FindPrevious(w)
    \/ \E w \in Workers : CheckFinished(w)
    \/ \E w \in Workers : Get(w)
    \/ \E w \in Workers : Create(w)
    \/ \E w \in Workers : Update(w)
    \/ \E w \in Workers : Save(w)

SpecSequential == InitStatus /\ [][NextSequential]_vars

\* calls of several workers at the same time
NextConcurrent ==
    \/ StatusCompleteTestRun
    \/ StatusAddTest
    \/ ConcurrentBegin
    \/ \E w \in Workers : ReadMetrics(w)
    \/ \E w \in Workers : CountTotal(w)
    \/ \E w \in Workers : CountCompleted(w)
    \/ \E w \in Workers : CountIncomplete(w)
    \/ \E w \in Workers : FindPrevious(w)
    \/ \E w \in Workers : CheckFinished(w)
    \/ \E w \in Workers : Get(w)
    \/ \E w \in Workers : Create(w)
    \/ \E w \in Workers : GetAgain(w)
    \/ \E w \in Workers : Update(w)
    \/ \E w \in Workers : Save(w)

SpecConcurrent == InitStatus /\ [][NextConcurrent]_vars

----------------------------------------------------------------------------
(* The status snapshotter when the earlier build stops being finished *)

\* the row a call for build b writes when the data of the build does not
\* change during the call and the call compares with the build previous;
\* rev as in TestSummary
Snapshot(b, previous, rev) ==
    LET comparison ==
            IF previous = None
            THEN [regressions |-> EmptyMapping, fixes |-> EmptyMapping]
            ELSE TestComparison(Val(previous), b, rev)
    IN Data([NewCall(b) EXCEPT
            !.test_summary = Counts(TestSummary(b, rev)),
            !.metrics_summary = MetricsSummary(b),
            !.test_runs_total = Cardinality(BuildRuns(b)),
            !.test_runs_completed =
                Cardinality({i \in BuildRuns(b) : test_runs[i].completed}),
            !.test_runs_incomplete =
                Cardinality({i \in BuildRuns(b) : ~test_runs[i].completed}),
            !.regressions = DumpIfAny(comparison.regressions),
            !.fixes = DumpIfAny(comparison.fixes),
            !.finished = Finished(b).isFinished])

\* the earlier build was finished and got its status; the build got its
\* status with a regression against it; then squad.ci submitted a test job
\* for the earlier build, which is not fetched yet, and the status of the
\* earlier build was updated
InitReopened ==
    /\ environments = StatusEnvironments
    /\ builds = TwoBuilds
    /\ test_runs = <<[build |-> EarlierBuild, environment |-> 1, completed |-> TRUE],
                     [build |-> TheBuild, environment |-> 1, completed |-> FALSE]>>
    /\ test_jobs = <<[build |-> EarlierBuild, fetched |-> FALSE]>>
    /\ tests = {[test_run |-> 1, suite |-> "s1", name |-> "a",
                 result |-> Some(TRUE), has_known_issues |-> Some(FALSE)],
                [test_run |-> 1, suite |-> "s1", name |-> "b",
                 result |-> Some(FALSE), has_known_issues |-> Some(FALSE)],
                [test_run |-> 2, suite |-> "s1", name |-> "a",
                 result |-> Some(FALSE), has_known_issues |-> Some(FALSE)]}
    /\ finishedResult = NoCall
    /\ summaryResult = NoCall
    /\ run_metadata = <<>>
    /\ metadataResult = NoCall
    /\ regressions_field = None
    /\ yamlResult = NoCall
    /\ metrics = <<>>
    /\ statuses = <<Snapshot(EarlierBuild, None, FALSE),
                    Snapshot(TheBuild, Some(EarlierBuild), FALSE)>>
    /\ previousResult = NoCall
    /\ clock = 0
    /\ pc = [w \in Workers |-> "idle"]
    /\ local = [w \in Workers |-> NoCall]
    /\ NoSide

InitRegressions == InitStatus \/ InitReopened

\* calls one after the other while results are only added
NextGrowing ==
    \/ StatusAddTestRun
    \/ StatusCompleteTestRun
    \/ StatusAddTest
    \/ StatusAddMetric
    \/ SequentialBegin
    \/ \E w \in Workers : ReadMetrics(w)
    \/ \E w \in Workers : CountTotal(w)
    \/ \E w \in Workers : CountCompleted(w)
    \/ \E w \in Workers : CountIncomplete(w)
    \/ \E w \in Workers : FindPrevious(w)
    \/ \E w \in Workers : CheckFinished(w)
    \/ \E w \in Workers : Get(w)
    \/ \E w \in Workers : Create(w)
    \/ \E w \in Workers : Update(w)
    \/ \E w \in Workers : Save(w)

\* calls one after the other while tests arrive and test runs are completed
NextRegressions ==
    \/ StatusCompleteTestRun
    \/ StatusAddTest
    \/ SequentialBegin
    \/ \E w \in Workers : ReadMetrics(w)
    \/ \E w \in Workers : CountTotal(w)
    \/ \E w \in Workers : CountCompleted(w)
    \/ \E w \in Workers : CountIncomplete(w)
    \/ \E w \in Workers : FindPrevious(w)
    \/ \E w \in Workers : CheckFinished(w)
    \/ \E w \in Workers : Get(w)
    \/ \E w \in Workers : Create(w)
    \/ \E w \in Workers : Update(w)
    \/ \E w \in Workers : Save(w)

SpecRegressions == InitRegressions /\ [][NextRegressions]_vars

SpecGrowing == InitStatus /\ [][NextGrowing]_vars

----------------------------------------------------------------------------
(* Test.status and the known issues of a test *)

\* KnownIssue.active: the issues of a test that are active now
ActiveIssues(t) == {i \in t.known_issues : known_issues[i].active}

\* a known issue is recorded
AddKnownIssue ==
    /\ Len(known_issues) < MaxIssues
    /\ \E a \in BOOLEAN : known_issues' = Append(known_issues, [active |-> a])
    /\ statusResult' = NoCall
    /\ UNCHANGED <<environments, builds, test_runs, test_jobs, tests, metrics,
                   resultVars, statuses, clock, pc, local, historyResult, deliveries, answers>>

\* KnownIssue.active is edited
SetKnownIssueActive ==
    /\ \E i \in 1..Len(known_issues) :
         known_issues' = [known_issues EXCEPT ![i].active = ~known_issues[i].active]
    /\ statusResult' = NoCall
    /\ UNCHANGED <<environments, builds, test_runs, test_jobs, tests, metrics,
                   resultVars, statuses, clock, pc, local, historyResult, deliveries, answers>>

\* a test arrives: it is linked to known issues that are active at that
\* time, and has_known_issues says whether there is any
IngestTest ==
    /\ Cardinality(tests) < MaxTests
    /\ \E name \in Names, result \in {None, Some(TRUE), Some(FALSE)},
          issues \in SUBSET {i \in 1..Len(known_issues) : known_issues[i].active} :
         /\ \A t \in tests : t.name # name
         /\ tests' = tests \cup
              {[test_run |-> 1, suite |-> "s1", name |-> name, result |-> result,
                has_known_issues |-> Some(issues # {}), known_issues |-> issues]}
    /\ statusResult' = NoCall
    /\ UNCHANGED <<environments, builds, test_runs, test_jobs, metrics, resultVars,
                   statuses, clock, pc, local, known_issues, historyResult, deliveries, answers>>

\* test.status is read
EvalStatus ==
    /\ statusResult = NoCall
    /\ \E t \in tests :
         statusResult' = [called |-> TRUE, test |-> t, status |-> TestStatus(t)]
    /\ UNCHANGED <<tableVars, resultVars, statuses, clock, pc, local,
                   known_issues, historyResult, deliveries, answers>>

InitIssues ==
    /\ environments = SummaryEnvironments
    /\ builds = TwoBuilds
    /\ test_runs = <<[build |-> TheBuild, environment |-> 1, completed |-> TRUE]>>
    /\ test_jobs = <<>>
    /\ tests = {}
    /\ finishedResult = NoCall
    /\ summaryResult = NoCall
    /\ run_metadata = <<>>
    /\ metadataResult = NoCall
    /\ regressions_field = None
    /\ yamlResult = NoCall
    /\ metrics = <<>>
    /\ NoWork
    /\ NoSide

NextIssues ==
    \/ AddKnownIssue
    \/ SetKnownIssueActive
    \/ IngestTest
    \/ EvalStatus

SpecIssues == InitIssues /\ [][NextIssues]_vars

----------------------------------------------------------------------------
(* Test.history *)

\* self.test_run.build.datetime
TestDate(t) == builds[test_runs[t.test_run].build].datetime

\* test_run__build__datetime__lte=date
EarlierOrSameDate(u, t) == TestDate(u) <= TestDate(t)

\* test_run__build__datetime__lt=date
Earlier(u, t) == TestDate(u) < TestDate(t)

\* Test.objects.filter(suite=..., name=..., test_run__build__datetime__lt=date,
\* test_run__environment=...).exclude(id=self.id)
PreviousTests(t) ==
    {u \in tests :
        /\ u.suite = t.suite
        /\ u.name = t.name
        /\ Earlier(u, t)
        /\ test_runs[u.test_run].environment = test_runs[t.test_run].environment
        /\ u # t}

\* order_by("-test_run__build__datetime"): the orders the database may
\* return the rows in; rows of the same datetime come in any order
NewestFirst(rows) ==
    {o \in [1..Cardinality(rows) -> rows] :
        /\ \A i \in DOMAIN o : \A j \in DOMAIN o : i # j => o[i] # o[j]
        /\ \A i \in DOMAIN o : \A j \in DOMAIN o :
              i < j => TestDate(o[i]) >= TestDate(o[j])}

\* the loop over previous_tests
RECURSIVE HistoryWalk(_, _, _, _, _)
HistoryWalk(t, previous_tests, i, since, count) ==
    IF i > Len(previous_tests)
    THEN [since |-> since, count |-> count, last_different |-> None]
    ELSE IF previous_tests[i].result = t.result
    THEN HistoryWalk(t, previous_tests, i + 1, Some(previous_tests[i]), count + 1)
    ELSE [since |-> since, count |-> count, last_different |-> Some(previous_tests[i])]

\* Test.history for the rows in the order previous_tests
History(t, previous_tests) == HistoryWalk(t, previous_tests, 1, None, 0)

\* the environments of the test runs: the run of the oldest build may be in
\* another environment than the others
HistoryRuns == {envs \in [BuildIds -> ProjectEnvIds] : \A i \in BuildIds \ {1} : envs[i] = 1}

\* the builds of one project, with datetimes that start at 1 and do not
\* decrease with the id
HistoryBuilds ==
    {t \in [BuildIds -> [project : {TheProject}, datetime : BuildIds,
                         patch_baseline : {None}]] :
        /\ t[1].datetime = 1
        /\ \A i \in BuildIds : \A j \in BuildIds : i < j => t[i].datetime <= t[j].datetime}

\* every build has one test run, in an environment of the project
InitHistory ==
    /\ environments = SummaryEnvironments
    /\ builds \in HistoryBuilds
    /\ \E envs \in HistoryRuns :
         test_runs = [i \in BuildIds |->
                        [build |-> i, environment |-> envs[i], completed |-> TRUE]]
    /\ test_jobs = <<>>
    /\ tests = {}
    /\ finishedResult = NoCall
    /\ summaryResult = NoCall
    /\ run_metadata = <<>>
    /\ metadataResult = NoCall
    /\ regressions_field = None
    /\ yamlResult = NoCall
    /\ metrics = <<>>
    /\ NoWork
    /\ NoSide

\* a test arrives: the test named a with any result, another test passes
HistoryAddTest ==
    /\ Cardinality(tests) < MaxHistoryTests
    /\ \E r \in 1..Len(test_runs), name \in Names,
          result \in {None, Some(TRUE), Some(FALSE)} :
         /\ name # "a" => result = Some(TRUE)
         /\ InsertTest(r, "s1", name, [result |-> result, has_known_issues |-> Some(FALSE)])
    /\ historyResult' = NoCall
    /\ UNCHANGED <<environments, builds, test_runs, test_jobs, metrics, resultVars,
                   statuses, clock, pc, local, known_issues, statusResult, deliveries, answers>>

\* test.history is read
EvalHistory ==
    /\ historyResult = NoCall
    /\ \E t \in tests : \E previous_tests \in NewestFirst(PreviousTests(t)) :
         historyResult' = [called |-> TRUE, test |-> t, previous_tests |-> previous_tests,
                           history |-> History(t, previous_tests)]
    /\ UNCHANGED <<tableVars, resultVars, statuses, clock, pc, local,
                   known_issues, statusResult, deliveries, answers>>

NextHistory ==
    \/ HistoryAddTest
    \/ EvalHistory

SpecHistory == InitHistory /\ [][NextHistory]_vars

----------------------------------------------------------------------------
(* NotificationDelivery.exists *)

\* sha1(content.encode()).hexdigest() of the contents the model draws from
Sha1(content) ==
    CASE content = "a" -> "86f7e437faa5a7fce15d1ddcb9eaeaea377667b8"
      [] content = "b" -> "e9d71f5ee7c92d6dc9e92ffdad17b8bd49418f98"

\* the arguments of the calls: one notification, and the ones that differ
\* from it in the status, the subject, the text or the html
Notifications ==
    {[status |-> 1, subject |-> "a", txt |-> "a", html |-> "a"],
     [status |-> 2, subject |-> "a", txt |-> "a", html |-> "a"],
     [status |-> 1, subject |-> "b", txt |-> "a", html |-> "a"],
     [status |-> 1, subject |-> "a", txt |-> "b", html |-> "a"],
     [status |-> 1, subject |-> "a", txt |-> "a", html |-> "b"]}

\* the row of a notification: the status and the three hashes
DeliveryRow(n) ==
    [status |-> n.status, subject |-> Sha1(n.subject),
     txt |-> Sha1(n.txt), html |-> Sha1(n.html)]

\* a table without the constraint on the four columns
NoConstraintOnDelivery(rows, row) == TRUE

\* unique_together = ('status', 'subject', 'txt', 'html')
UniqueDelivery(rows, row) == \A i \in 1..Len(rows) : rows[i] # row

CallsBegun == Len(answers) + Cardinality({w \in Workers : pc[w] # "idle"})

\* exists(status, subject, txt, html): the three hashes; later says
\* whether a call with the same arguments has returned before this one
\* begins
ExistsBegin(w) ==
    /\ pc[w] = "idle"
    /\ CallsBegun < MaxCalls
    /\ \E n \in Notifications :
         local' = [local EXCEPT ![w] =
            [called |-> TRUE, arguments |-> n, row |-> DeliveryRow(n),
             later |-> \E i \in 1..Len(answers) : answers[i].arguments = n,
             created |-> FALSE, retried |-> FALSE, error |-> "none"]]
    /\ pc' = [pc EXCEPT ![w] = "get_delivery"]
    /\ UNCHANGED <<tableVars, resultVars, statuses, clock,
                   known_issues, statusResult, historyResult, deliveries, answers>>

\* get_or_create: self.get(**lookup)
ExistsGet(w) ==
    /\ pc[w] = "get_delivery"
    /\ pc' = [pc EXCEPT ![w] =
          IF \E i \in 1..Len(deliveries) : deliveries[i] = local[w].row
          THEN "return" ELSE "create_delivery"]
    /\ UNCHANGED <<tableVars, resultVars, statuses, clock, local,
                   sideVars>>

\* get_or_create: self.create(**params)
ExistsCreate(w) ==
    /\ pc[w] = "create_delivery"
    /\ IF UniqueDelivery(deliveries, local[w].row)
       THEN /\ deliveries' = Append(deliveries, local[w].row)
            /\ local' = [local EXCEPT ![w].created = TRUE]
            /\ pc' = [pc EXCEPT ![w] = "return"]
       ELSE /\ deliveries' = deliveries
            /\ local' = [local EXCEPT ![w].retried = TRUE]
            /\ pc' = [pc EXCEPT ![w] = "get_delivery_again"]
    /\ UNCHANGED <<tableVars, resultVars, statuses, clock,
                   known_issues, statusResult, historyResult, answers>>

\* get_or_create: self.get(**lookup) after the IntegrityError of create
ExistsGetAgain(w) ==
    /\ pc[w] = "get_delivery_again"
    /\ IF \E i \in 1..Len(deliveries) : deliveries[i] = local[w].row
       THEN /\ pc' = [pc EXCEPT ![w] = "return"]
            /\ local' = local
       ELSE Raise(w, "IntegrityError")
    /\ UNCHANGED <<tableVars, resultVars, statuses, clock,
                   sideVars>>

\* return (not created)
ExistsReturn(w) ==
    /\ pc[w] = "return"
    /\ answers' = Append(answers, [arguments |-> local[w].arguments,
                                   later |-> local[w].later,
                                   retried |-> local[w].retried,
                                   exists |-> ~local[w].created])
    /\ pc' = [pc EXCEPT ![w] = "idle"]
    /\ UNCHANGED <<tableVars, resultVars, statuses, clock, local,
                   known_issues, statusResult, historyResult, deliveries>>

\* the two builds have their statuses; nothing has been delivered
InitDelivery ==
    /\ environments = StatusEnvironments
    /\ builds = TwoBuilds
    /\ test_runs = <<>>
    /\ test_jobs = <<>>
    /\ tests = {}
    /\ finishedResult = NoCall
    /\ summaryResult = NoCall
    /\ run_metadata = <<>>
    /\ metadataResult = NoCall
    /\ regressions_field = None
    /\ yamlResult = NoCall
    /\ metrics = <<>>
    /\ statuses = <<BlankStatus(EarlierBuild, FALSE), BlankStatus(TheBuild, FALSE)>>
    /\ previousResult = NoCall
    /\ clock = 0
    /\ pc = [w \in Workers |-> "idle"]
    /\ local = [w \in Workers |-> NoCall]
    /\ NoSide

NextDelivery ==
    \/ \E w \in Workers : ExistsBegin(w)
    \/ \E w \in Workers : ExistsGet(w)
    \/ \E w \in Workers : ExistsCreate(w)
    \/ \E w \in Workers : ExistsGetAgain(w)
    \/ \E w \in Workers : ExistsReturn(w)

SpecDelivery == InitDelivery /\ [][NextDelivery]_vars

----------------------------------------------------------------------------
(* Claims about Build.finished, checked under SpecFinished *)

\* received, stated on the tables: the completed test runs of the build in e
Received(b, e) ==
    Cardinality({i \in 1..Len(test_runs) :
        /\ test_runs[i].build = b
        /\ test_runs[i].completed
        /\ test_runs[i].environment = e})

NoUnfetchedJob(b) ==
    \A i \in 1..Len(test_jobs) : test_jobs[i].build = b => test_jobs[i].fetched

CompletedRunOutsideProject(b) ==
    \E i \in 1..Len(test_runs) :
        /\ test_runs[i].build = b
        /\ test_runs[i].completed
        /\ test_runs[i].environment \notin ProjectEnvironments(b)

StarvedEnvironments(b) ==
    {e \in ProjectEnvironments(b) :
        /\ TruthyInt(environments[e].expected_test_runs)
        /\ Val(environments[e].expected_test_runs) > 0
        /\ Received(b, e) = 0}

\* C11: when Build.finished returns its reasons for a build with an
\* unfetched CI job, the first reason is the one about the CI jobs, and for
\* every environment that expects N > 0 test runs and has received no
\* completed one the reasons hold the "no test runs" message directly
\* followed by the "N expected, only 0 received" message; an environment
\* without a completed run whose expected_test_runs is not 0 has its "no
\* test runs" message whether or not a CI job is unfetched.
C11_ReasonsAccumulate ==
    (finishedResult.called /\ ~finishedResult.raised) =>
        LET reasons == finishedResult.reasons
        IN /\ ~NoUnfetchedJob(TheBuild) =>
                /\ Len(reasons) >= 1
                /\ reasons[1] = CIReason
                /\ \A e \in StarvedEnvironments(TheBuild) :
                      \E i \in 2..(Len(reasons) - 1) :
                         /\ reasons[i] = NoRunsReason(e)
                         /\ reasons[i + 1] =
                              ExpectedReason(e, Val(environments[e].expected_test_runs), 0)
           /\ \A e \in ProjectEnvironments(TheBuild) :
                (environments[e].expected_test_runs # Some(0) /\ Received(TheBuild, e) = 0)
                => \E i \in 1..Len(reasons) : reasons[i] = NoRunsReason(e)

\* an evaluation with an unfetched CI job and an environment that expects
\* two test runs and has none gave the three reasons
C11_Witness ==
    /\ finishedResult.called
    /\ ~finishedResult.raised
    /\ ~NoUnfetchedJob(TheBuild)
    /\ StarvedEnvironments(TheBuild) # {}
    /\ Len(finishedResult.reasons) >= 3

\* C20: Build.finished returns for every build, whatever the environments
\* of its completed test runs.
C20_NeverFails ==
    finishedResult.called => ~finishedResult.raised

----------------------------------------------------------------------------
(* Claims about TestSummary, checked under SpecSummary *)

\* the Test rows of a build, and their (environment, suite, name) identities
BuildTests(b) == {t \in tests : test_runs[t.test_run].build = b}
BuildKeys(b) == {TestKey(t) : t \in BuildTests(b)}

Counted(s, status) ==
    Cardinality({i \in 1..Len(s.tests) : TestStatus(s.tests[i].test) = status})

\* C6: the summary counts exactly one test for every (environment, suite,
\* name) identity of the build, tests of different identities are never
\* merged, the test counted for an identity is one of the run with the
\* highest id that has a test of that identity, and the four counters are
\* the numbers of counted tests of each status.
C6_HighestRunWins ==
    summaryResult.called =>
        LET s == summaryResult
        IN /\ Len(s.tests) = Cardinality(BuildKeys(TheBuild))
           /\ \A k \in BuildKeys(TheBuild) :
                Cardinality({i \in 1..Len(s.tests) : s.tests[i].key = k}) = 1
           /\ \A i \in 1..Len(s.tests) :
                /\ s.tests[i].test \in BuildTests(TheBuild)
                /\ TestKey(s.tests[i].test) = s.tests[i].key
                /\ \A u \in BuildTests(TheBuild) :
                     TestKey(u) = s.tests[i].key =>
                        u.test_run <= s.tests[i].test.test_run
           /\ s.tests_pass = Counted(s, "pass")
           /\ s.tests_fail = Counted(s, "fail")
           /\ s.tests_xfail = Counted(s, "xfail")
           /\ s.tests_skip = Counted(s, "skip")

\* C6 witness: two runs of one environment hold a test of the same suite and
\* name, passing in the first run and failing in the second, and the summary
\* counts one failure and no pass
C6_Witness ==
    /\ summaryResult.called
    /\ summaryResult.tests_fail = 1
    /\ summaryResult.tests_pass = 0
    /\ \E t, u \in BuildTests(TheBuild) :
         /\ TestKey(t) = TestKey(u)
         /\ t.test_run < u.test_run
         /\ TestStatus(t) = "pass"
         /\ TestStatus(u) = "fail"

----------------------------------------------------------------------------
(* Claims about Build.metadata, checked under SpecMetadata *)

\* C8: merging the merged map M with itself, as the metadata of one or of
\* two test runs, gives M again, also for the keys whose value in M is a list.
C8_MergeIdempotent ==
    (metadataResult.called /\ metadataResult.copies > 0) =>
        metadataResult.remerged = metadataResult.merged

\* C8 witness: two test runs disagree on a key, the merged map holds a list
\* of two values for it, and the map has been merged with itself twice over
C8_Witness ==
    /\ metadataResult.called
    /\ metadataResult.copies = 2
    /\ Len(run_metadata) = 2
    /\ \E k \in DOMAIN metadataResult.merged :
         /\ k \in DOMAIN run_metadata[1] /\ k \in DOMAIN run_metadata[2]
         /\ run_metadata[1][k].t # "list" /\ run_metadata[2][k].t # "list"
         /\ metadataResult.merged[k].t = "list"
         /\ Len(metadataResult.merged[k].items) = 2
         /\ metadataResult.remerged[k] = metadataResult.merged[k]

\* C14: Build.metadata has exactly the keys of the metadata of the test
\* runs, and what it gives does not depend on the order in which the test
\* runs are read: every order gives the same merged map.
C14_OrderIndependent ==
    metadataResult.called =>
        /\ DOMAIN metadataResult.merged =
              UNION {DOMAIN run_metadata[i] : i \in 1..Len(run_metadata)}
        /\ \A p \in Orders(Len(run_metadata)) :
              BuildMetadata([i \in 1..Len(run_metadata) |-> run_metadata[p[i]]])
                = metadataResult.merged

----------------------------------------------------------------------------
(* Claims about the stored comparison, checked under SpecYaml *)

\* the texts yaml.load cannot parse
Unparsable(text) ==
    /\ Len(text) > 0
    /\ \E i \in 1..Len(text) : text[i].kind # "entry"
    /\ \E i \in 1..Len(text) : text[i].kind # "scalar"

\* C9: get_regressions never raises, and returns the empty mapping when the
\* stored field is null and when the stored text cannot be parsed.
C9_FailsClosed ==
    yamlResult.called =>
        /\ yamlResult.result.kind # "raised"
        /\ (regressions_field = None \/ Unparsable(Val(regressions_field))) =>
              yamlResult.result = [kind |-> "mapping", map |-> EmptyMapping]

----------------------------------------------------------------------------
(* Claims about the previous build, checked under SpecPrevious *)

\* the ORDER BY of the query fixes the row it returns: no key is NULL and
\* no two joined rows have the same key
OrderDetermined(b) ==
    \A r1, r2 \in JoinedRows(b) :
        /\ r1.key # None
        /\ r1.key = r2.key => r1 = r2

\* C5, in the cases in which the ORDER BY fixes the result: the previous
\* build is a build of the same project, with a finished status and an
\* earlier datetime, and no other such build has a later datetime,
\* whatever builds name them as their patch_baseline.
C5_NearestFinished ==
    (previousResult.called /\ OrderDetermined(previousResult.build)) =>
        LET b == previousResult.build
        IN IF Qualifying(b) = {} THEN previousResult.previous = None
           ELSE /\ previousResult.previous # None
                /\ Val(previousResult.previous) \in Qualifying(b)
                /\ \A q \in Qualifying(b) :
                     builds[q].datetime <= builds[Val(previousResult.previous)].datetime

----------------------------------------------------------------------------
(* Claims about ProjectStatus.create_or_update one call after the other, *)
(* checked under SpecSequential                                         *)

\* the step of worker w in which get_or_create returns the status of id i
\* that exists already
FetchStep(w, i) ==
    /\ pc[w] \in {"get", "get_again"}
    /\ pc'[w] # pc[w]
    /\ StatusIds(local[w].build) = {i}

\* no stored tests_total gets lower in a step
TotalsKept ==
    /\ Len(statuses') >= Len(statuses)
    /\ \A i \in 1..Len(statuses) : TestsTotal(statuses'[i]) >= TestsTotal(statuses[i])

\* C2: when a status exists and the call has computed a tests_total below
\* the stored one, the call ends without an error, changes no field of any
\* stored status and returns the status as it was read; and no step of a
\* sequential run lowers a stored tests_total.
C2_StaleUpdateDropped ==
    [][/\ \A w \in Workers : \A i \in 1..Len(statuses) :
            (FetchStep(w, i)
             /\ TestsTotal(local[w].test_summary) < TestsTotal(statuses[i]))
            => /\ pc'[w] = "done"
               /\ local'[w].error = "none"
               /\ statuses' = statuses
               /\ local'[w].returned = Some(statuses[i])
       /\ TotalsKept]_vars

\* a call has returned the stored status untouched because its own total
\* was lower
C2_Witness ==
    \E w \in Workers :
        /\ pc[w] = "done"
        /\ ~local[w].created
        /\ TestsTotal(local[w].test_summary) < TestsTotal(statuses[local[w].id])
        /\ local[w].returned = Some(statuses[local[w].id])
        /\ statuses[local[w].id].last_updated # Some(local[w].now)

\* C10: when a status exists and the computed tests_total is at least the
\* stored one, the call takes the update path, and its save leaves every
\* field of the stored status (the four counts, the metrics summary,
\* has_metrics, last_updated, finished, the three run counts, regressions
\* and fixes) equal to the value the call computed, and returns that status.
C10_UpdateOverwritesAll ==
    [][\A w \in Workers :
        /\ \A i \in 1..Len(statuses) :
              (FetchStep(w, i)
               /\ TestsTotal(local[w].test_summary) >= TestsTotal(statuses[i]))
              => pc'[w] = "update"
        /\ (pc[w] = "update" /\ pc'[w] # pc[w]) => pc'[w] = "save"
        /\ (pc[w] = "save" /\ pc'[w] # pc[w])
              => /\ pc'[w] = "done"
                 /\ statuses'[local[w].id] = Data(local[w])
                 /\ local'[w].returned = Some(Data(local[w]))
                 /\ \A j \in 1..Len(statuses) :
                       j # local[w].id => statuses'[j] = statuses[j]]_vars

\* a call has taken the update path and has stored regressions against the
\* earlier build along with its other values
C10_Witness ==
    \E w \in Workers :
        /\ pc[w] = "done"
        /\ ~local[w].created
        /\ local[w].returned = Some(statuses[local[w].id])
        /\ statuses[local[w].id] = Data(local[w])
        /\ local[w].regressions # None

\* C19: in every stored status test_runs_total is the sum of
\* test_runs_completed and test_runs_incomplete, also when test runs arrive
\* or are completed between the three counts of a call.
C19_RunCountsAddUp ==
    \A i \in 1..Len(statuses) :
        statuses[i].test_runs_total =
            statuses[i].test_runs_completed + statuses[i].test_runs_incomplete

----------------------------------------------------------------------------
(* Claims about calls one after the other while results are only added, *)
(* checked under SpecGrowing                                           *)

\* the tests_total that TestSummary computes for build b
ComputedTotal(b, rev) == TestsTotal(Counts(TestSummary(b, rev)))

\* the tests_total computed from the data as they are is not below the one
\* that a call computed before or that is stored, and a call that finds a
\* status takes the update path
GrowingTotals ==
    /\ \A rev \in BOOLEAN :
          /\ \A w \in Workers : local[w].called =>
                ComputedTotal(local[w].build, rev) >= TestsTotal(local[w].test_summary)
          /\ \A i \in 1..Len(statuses) :
                ComputedTotal(statuses[i].build, rev) >= TestsTotal(statuses[i])
    /\ \A w \in Workers : \A i \in 1..Len(statuses) :
          FetchStep(w, i) => pc'[w] = "update"

\* the rows that hold the aggregates of the data of build b as they are now
Aggregates(b) ==
    {Snapshot(b, p, rev) : rev \in BOOLEAN,
                           p \in UNION {PreviousBuilds(b, nl) : nl \in BOOLEAN}}

\* C18: when calls do not overlap and test runs and tests are only added
\* or completed, the tests_total that TestSummary computes never
\* decreases, the condition of the update path never drops an update, and
\* the status a call leaves stored holds the aggregates of the build's
\* data as they are when the call stores it (last_updated aside).
C18_StoredEqualsAggregates ==
    [][/\ GrowingTotals
       /\ \A w \in Workers :
            (pc[w] \in {"create", "save"} /\ pc'[w] = "done")
            => [statuses'[local'[w].id] EXCEPT !.last_updated = Some(0)]
                  \in Aggregates(local[w].build)]_vars

----------------------------------------------------------------------------
(* Claims about concurrent calls of ProjectStatus.create_or_update, *)
(* checked under SpecConcurrent                                    *)

\* the call of worker w has got its status from get_or_create
HasStatus(w) == pc[w] \in {"update", "save", "done"}

\* C3: when workers call create_or_update for a build without a status at
\* the same time, the build gets one status: one worker creates it, an
\* insert that loses against the uniqueness of ProjectStatus.build fails
\* inside get_or_create only, and the worker that lost reads the status
\* that exists and goes on to the condition of the update path; no call
\* fails and no second status is stored.
C3_CreatedOnce ==
    /\ \A b \in DOMAIN builds : Cardinality(StatusIds(b)) <= 1
    /\ \A w \in Workers :
          /\ pc[w] # "raised"
          /\ HasStatus(w) =>
                /\ StatusIds(local[w].build) = {local[w].id}
                /\ local[w].retried => ~local[w].created
                /\ local[w].created => local[w].returned = Some(Data(local[w]))
    /\ \A w \in Workers : \A v \in Workers \ {w} :
          (HasStatus(w) /\ HasStatus(v) /\ local[w].build = local[v].build)
          => ~(local[w].created /\ local[v].created)

\* both workers tried to insert; one has created the status, the other has
\* lost, read the status and saved its update
C3_Witness ==
    \E w \in Workers : \E v \in Workers \ {w} :
        /\ pc[w] = "done" /\ local[w].created
        /\ pc[v] = "done" /\ local[v].retried /\ ~local[v].created
        /\ local[v].build = local[w].build
        /\ local[v].id = local[w].id
        /\ statuses[local[v].id] = Data(local[v])

\* C4: no step of concurrent workers lowers a stored tests_total.
C4_StoredTotalNeverDecreases ==
    [][\A i \in 1..Len(statuses) :
        /\ Len(statuses') >= i
        /\ TestsTotal(statuses'[i]) >= TestsTotal(statuses[i])]_vars

\* C17: when two workers have run create_or_update for the same build with
\* equal tests_total and worker b counted the test runs after worker a did
\* (it saw more completed runs), then after both calls the stored finished
\* flag and the stored run counts are those of worker b.
C17_NewerSnapshotWins ==
    \A a \in Workers : \A b \in Workers \ {a} :
        (/\ pc[a] = "done" /\ pc[b] = "done"
         /\ local[a].build = local[b].build
         /\ TestsTotal(local[a].test_summary) = TestsTotal(local[b].test_summary)
         /\ local[a].test_runs_completed < local[b].test_runs_completed)
        => /\ statuses[local[b].id].test_runs_total = local[b].test_runs_total
           /\ statuses[local[b].id].test_runs_completed = local[b].test_runs_completed
           /\ statuses[local[b].id].test_runs_incomplete = local[b].test_runs_incomplete
           /\ statuses[local[b].id].finished = local[b].finished

----------------------------------------------------------------------------
(* Claims about Test.status, checked under SpecIssues *)

\* C12: Test.status is pass for result = true, skip for result = null, and
\* for result = false it is xfail exactly when one of the known issues of
\* the test is active, fail otherwise.
C12_StatusByActiveIssue ==
    statusResult.called =>
        LET t == statusResult.test
        IN statusResult.status =
            (IF t.result = Some(TRUE) THEN "pass"
             ELSE IF t.result = None THEN "skip"
             ELSE IF ActiveIssues(t) # {} THEN "xfail"
             ELSE "fail")

----------------------------------------------------------------------------
(* Claims about Test.history, checked under SpecHistory *)

\* the number of rows at the head of seq whose raw result is that of t
RECURSIVE SameResultPrefix(_, _, _)
SameResultPrefix(t, seq, i) ==
    IF i <= Len(seq) /\ seq[i].result = t.result
    THEN SameResultPrefix(t, seq, i + 1)
    ELSE i - 1

\* C13: Test.history of a test T walks exactly the other tests of the same
\* suite, name and environment in builds whose datetime is strictly earlier
\* than that of T's build, newest first; count is the length of the longest
\* prefix of them with the raw result of T, since is the last test of that
\* prefix (null for an empty prefix), last_different the test right after
\* the prefix (null if there is none); without earlier tests the history is
\* since = null, count = 0, last_different = null.
C13_History ==
    historyResult.called =>
        LET t == historyResult.test
            seq == historyResult.previous_tests
            h == historyResult.history
            k == SameResultPrefix(t, seq, 1)
        IN /\ {seq[i] : i \in 1..Len(seq)} =
                {u \in tests \ {t} :
                    /\ u.suite = t.suite /\ u.name = t.name
                    /\ test_runs[u.test_run].environment = test_runs[t.test_run].environment
                    /\ builds[test_runs[u.test_run].build].datetime
                         < builds[test_runs[t.test_run].build].datetime}
           /\ Len(seq) = Cardinality({seq[i] : i \in 1..Len(seq)})
           /\ \A i \in 1..Len(seq) : \A j \in 1..Len(seq) :
                 i < j => builds[test_runs[seq[i].test_run].build].datetime
                            >= builds[test_runs[seq[j].test_run].build].datetime
           /\ h.count = k
           /\ h.since = (IF k = 0 THEN None ELSE Some(seq[k]))
           /\ h.last_different = (IF k < Len(seq) THEN Some(seq[k + 1]) ELSE None)
           /\ Len(seq) = 0 => h = [since |-> None, count |-> 0, last_different |-> None]

\* a history with a test of the same result followed by an older test of
\* another result
C13_Witness ==
    /\ historyResult.called
    /\ historyResult.history.count = 1
    /\ historyResult.history.last_different # None
    /\ Len(historyResult.previous_tests) = 2

----------------------------------------------------------------------------
(* Claims about the stored regressions and fixes, checked under *)
(* SpecRegressions                                              *)

\* no build of the project of build b with an earlier datetime has a status
\* that is finished
NoFinishedEarlier(b) ==
    \A p \in DOMAIN builds :
        (builds[p].project = builds[b].project /\ builds[p].datetime < builds[b].datetime)
        => \A i \in 1..Len(statuses) : statuses[i].build = p => ~statuses[i].finished

\* C15: when no build of the project with a datetime strictly before the
\* build's has a finished status, the status that create_or_update creates
\* has regressions and fixes null, and the save of the update path leaves
\* regressions and fixes null, whatever was stored in them before.
C15_NullWithoutPrevious ==
    [][\A w \in Workers :
        (/\ pc[w] \in {"create", "save"}
         /\ pc'[w] = "done"
         /\ NoFinishedEarlier(local[w].build))
        => /\ local'[w].id \in 1..Len(statuses')
           /\ statuses'[local'[w].id].build = local[w].build
           /\ statuses'[local'[w].id].regressions = None
           /\ statuses'[local'[w].id].fixes = None]_vars

\* a call has saved its update with null regressions although the build has
\* a regression against the earlier build, whose status is not finished
C15_Witness ==
    \E w \in Workers :
        /\ pc[w] = "done"
        /\ ~local[w].created
        /\ local[w].build = TheBuild
        /\ NoFinishedEarlier(TheBuild)
        /\ StatusIds(EarlierBuild) # {}
        /\ TestComparison(EarlierBuild, TheBuild, FALSE).regressions # EmptyMapping
        /\ statuses[local[w].id] = Data(local[w])
        /\ statuses[local[w].id].regressions = None
        /\ statuses[local[w].id].fixes = None

----------------------------------------------------------------------------
(* Claims about NotificationDelivery.exists, checked under SpecDelivery *)

\* the answers false that the calls with the arguments n have returned
FalseAnswers(n) ==
    {i \in 1..Len(answers) : answers[i].arguments = n /\ ~answers[i].exists}

\* C16: of the calls of exists with the same status, subject, text and
\* html, also concurrent ones, at most one returns false; a call that
\* begins after one with the same arguments has returned returns true; and
\* a call returns true only if a call with the same arguments has inserted
\* the row and returns false: calls with another status or other contents
\* never make it return true. No call fails.
C16_FalseOncePerNotification ==
    /\ \A n \in Notifications : Cardinality(FalseAnswers(n)) <= 1
    /\ \A i \in 1..Len(answers) :
          /\ answers[i].later => answers[i].exists
          /\ answers[i].exists =>
                \/ FalseAnswers(answers[i].arguments) # {}
                \/ \E w \in Workers :
                      /\ pc[w] = "return"
                      /\ local[w].created
                      /\ local[w].arguments = answers[i].arguments
    /\ \A w \in Workers : pc[w] # "raised"
    /\ (\A w \in Workers : pc[w] = "idle") =>
          \A i \in 1..Len(answers) : Cardinality(FalseAnswers(answers[i].arguments)) = 1

\* two workers have called exists with the same arguments at the same
\* time, one has got false and the other, whose insert failed, has got true;
\* a call with another subject in between has got false
C16_Witness ==
    /\ Len(answers) = 3
    /\ \A w \in Workers : pc[w] = "idle"
    /\ answers[1].arguments = answers[3].arguments
    /\ answers[2].arguments.subject # answers[1].arguments.subject
    /\ ~answers[2].exists
    /\ ~answers[3].later
    /\ Len(deliveries) = 2
    /\ {answers[1].exists, answers[3].exists} = {TRUE, FALSE}
    /\ \E i \in {1, 3} : answers[i].retried /\ answers[i].exists

====
